---- MODULE Spec2Model ----
(***************************************************************************)
(* Model of the k3se orchestration engine (pkg/engine).                    *)
(*                                                                         *)
(* The engine is one Go object shared by the goroutine that calls its      *)
(* public methods ("main") and by the worker goroutines that Install       *)
(* starts, one per agent node.  A node is identified by its index in       *)
(* e.Spec.Nodes, which is what the Go code's *Node pointers stand for.     *)
(* Byte slices and command output are sequences; the join URL built by     *)
(* fmt.Sprintf("https://%s:%d", host, port) is the tuple                   *)
(* <<"https", host, port>>.                                                *)
(***************************************************************************)
EXTENDS Integers, Naturals, Sequences, FiniteSets, TLC

(***************************************************************************)
(* Bounds of the model.                                                    *)
(***************************************************************************)
MaxServers == 3
MaxAgents == 2

(***************************************************************************)
(* Program constants.                                                      *)
(***************************************************************************)
RoleAny == "any"
RoleServer == "server"
RoleAgent == "agent"
Channels == <<"stable", "latest", "testing">>
DefaultPort == 6443

Nil == [nil |-> TRUE]

(***************************************************************************)
(* Inputs: what the outside world can hand to the engine.                  *)
(***************************************************************************)
\* Bodies the installer URL can answer with (the empty body included).
Bodies == {<<>>, <<1, 2>>}
\* The body that comes with a status that is not a success.
ErrorPage == <<0>>
\* The responses of an installer URL in good health, and those of one that
\* can also answer "404 Not Found".
OkResponses == {[status |-> 200, body |-> b] : b \in Bodies}
Responses == OkResponses \cup {[status |-> 404, body |-> ErrorPage]}
\* Raw output of "sudo cat /var/lib/rancher/k3s/server/token", a sequence of
\* code points: "a\n", and form feed, space, "b", U+2028.
RawTokens == {<<97, 10>>, <<12, 32, 98, 8232>>}
Versions == {"stable", "v1"}

Host(k) == "n" \o ToString(k)

Block(r, n) == [k \in 1..n |-> r]

\* Node lists: one for every number of servers up to MaxServers and of agents
\* up to MaxAgents, agents and servers alternating (agent, server, agent, ...)
\* until one role runs out, so that neither role sits at the indices 1..n.
RECURSIVE Alternate(_, _)
Alternate(s, a) ==
  IF a = 0 THEN Block(RoleServer, s)
  ELSE IF s = 0 THEN Block(RoleAgent, a)
  ELSE <<RoleAgent, RoleServer>> \o Alternate(s - 1, a - 1)

RoleLists == {Alternate(s, a) : s \in 0..MaxServers, a \in 0..MaxAgents}

\* The settings fragments (Server, Agent) with the fields the engine reads
\* and one further scalar and sequence field, all at their zero value.
ZeroServer ==
  [TLSSAN |-> <<>>, HTTPSListenPort |-> 0, AdvertisePort |-> 0,
   AdvertiseAddress |-> "", NodeName |-> "", NodeLabel |-> <<>>]

ZeroAgent == [NodeName |-> "", NodeLabel |-> <<>>]

MkConfig(version, roles) ==
  [Version |-> version,
   Cluster |-> [Server |-> ZeroServer, Agent |-> ZeroAgent],
   Nodes |-> [k \in DOMAIN roles |->
                [Role |-> roles[k], Host |-> Host(k),
                 Server |-> ZeroServer, Agent |-> ZeroAgent]],
   SSHProxy |-> ""]

\* Configuration documents offered to SetSpec, rejected ones included.
Configs == {MkConfig(v, roles) : v \in Versions, roles \in RoleLists}

\* The credential document k3s writes on a server: one cluster, one auth and
\* one context entry, all named "default".
K3sDocument(cred) ==
  [Clusters |-> [x \in {"default"} |->
                   [Server |-> <<"https", "127.0.0.1", DefaultPort>>, CA |-> cred]],
   AuthInfos |-> [x \in {"default"} |-> [Cert |-> cred]],
   Contexts |-> [x \in {"default"} |-> [Cluster |-> "default", AuthInfo |-> "default"]],
   CurrentContext |-> "default"]

RemoteFiles == {K3sDocument("ca1"), K3sDocument("ca2")}

\* The context that goes with a cluster entry of an existing local document.
OldContext(cluster) ==
  IF cluster = "default" THEN "default"
  ELSE IF cluster = "clusterA" THEN "ctxA"
  ELSE "admin@" \o cluster

\* An existing local document with one cluster, auth and context entry for
\* every given cluster name, all holding old data.
LocalDocument(clusters) ==
  LET contexts == {OldContext(c) : c \in clusters}
  IN [Clusters |-> [x \in clusters |-> [Server |-> <<"https", "old", DefaultPort>>, CA |-> "old"]],
      AuthInfos |-> [x \in contexts |-> [Cert |-> "old"]],
      Contexts |-> [x \in contexts |->
                      [Cluster |-> CHOOSE c \in clusters : OldContext(c) = x,
                       AuthInfo |-> x]],
      CurrentContext |-> IF "clusterA" \in clusters THEN "ctxA" ELSE ""]

\* A file that clientcmd.Load does not parse.
Corrupt == [corrupt |-> TRUE]

\* A file of no bytes: clientcmd.Load gives the empty document for it.
EmptyFile == LocalDocument({})

\* What can be at outputPath: no file, a file that does not parse, or a
\* document with any of an unrelated entry, an entry named "default" and an
\* entry named after the host n1.
LocalFiles ==
  {Nil, Corrupt} \cup {LocalDocument(c) : c \in SUBSET {"clusterA", "default", "n1"}}

\* Configurations with one control-plane node n1, without and with an
\* advertise port and a TLS subject-alternative-name.
KubeConfigs ==
  {[MkConfig("stable", <<RoleServer>>) EXCEPT
      !.Cluster.Server.AdvertisePort = p, !.Cluster.Server.TLSSAN = t] :
     p \in {0, 8443}, t \in {<<>>, <<"default">>}}

VARIABLES
  spec,            \* e.Spec
  serverURL,       \* e.serverURL
  clusterToken,    \* e.clusterToken
  installer,       \* e.installer
  mutex,           \* the embedded sync.Mutex: 0 when free, else the node whose task holds it
  cleanupPending,  \* e.cleanupPending
  mainPc,          \* position of the goroutine calling the engine's methods
  i,               \* loop index of installControlPlanes (1-based)
  j,               \* loop index of the spawn loop of installWorkers (1-based)
  env,             \* the env map of installControlPlanes
  wg,              \* counter of the sync.WaitGroup of installWorkers
  nodePc,          \* per node: position of the task working on it
  respBody,        \* per node: body of the HTTP response being read
  fetch,           \* per node: what fetchInstallationScript returned to its caller
  calls,           \* per node: env of the install invocation sent to it
  tokenRead,       \* per node: the join token read from it
  netCalls,        \* number of http.Get(InstallerURL) calls made
  installResult,   \* what Install returned
  op,              \* the operation of pkg/ops that runs: "none", "up", "down", "kubeconfig"
  opPc,            \* position of the operation
  config,          \* what engine.LoadConfig returned to the operation
  ni,              \* node index of the loop of Connect, Uninstall or Disconnect (1-based)
  proxies,         \* number of proxy sessions opened so far
  sshProxy,        \* the sshProxy of Connect: 0 for nil, else the proxy session
  client,          \* per node: state of node.Client
  via,             \* per node: the proxy session node.Client was dialled through, 0 for none
  log,             \* the connections and remote commands attempted, in order
  opErr,           \* what the operation returned
  remoteFile,      \* the document in /etc/rancher/k3s/k3s.yaml on the first control-plane node
  localFile,       \* the document in the file at outputPath, Nil if there is no file
  uploaded,        \* per node: the config.yaml uploaded to it, Nil if none
  served,          \* the responses the installer URL can answer a request with
  disk,            \* "ok", or "full": a write to outputPath can fail
  runs             \* the calls of Engine.KubeConfig made: mode, error, file found, newConfig, file left

installVars == <<spec, serverURL, clusterToken, installer, mutex, cleanupPending,
                 mainPc, i, j, env, wg, nodePc, respBody, fetch, calls, tokenRead,
                 netCalls, installResult>>

opsVars == <<op, opPc, config, ni, proxies, sshProxy, client, via, log, opErr>>

kubeVars == <<remoteFile, localFile, runs>>

\* What neither Install nor the operations' own steps touch.
restVars == <<kubeVars, uploaded, served, disk>>

vars == <<installVars, opsVars, restVars>>

engineVars == <<spec, serverURL, clusterToken, installer, mutex, cleanupPending>>

(***************************************************************************)
(* Pure helpers.                                                           *)
(***************************************************************************)
NoError == "nil"

\* unicode.IsSpace, as strings.TrimSpace uses it, on a character given by its
\* code point: U+0009 to U+000D, U+0020, U+0085, U+00A0, U+1680, U+2000 to
\* U+200A, U+2028, U+2029, U+202F, U+205F and U+3000.
IsSpace(c) ==
  \/ c \in 9..13
  \/ c \in {32, 133, 160, 5760, 8232, 8233, 8239, 8287, 12288}
  \/ c \in 8192..8202

RECURSIVE TrimLeft(_)
TrimLeft(s) ==
  IF s # <<>> /\ IsSpace(Head(s)) THEN TrimLeft(Tail(s)) ELSE s

RECURSIVE TrimRight(_)
TrimRight(s) ==
  IF s # <<>> /\ IsSpace(s[Len(s)]) THEN TrimRight(SubSeq(s, 1, Len(s) - 1)) ELSE s

\* strings.TrimSpace
TrimSpace(s) == TrimRight(TrimLeft(s))

\* The prefixes of a body: what io.ReadAll can have read when it fails.
Prefixes(b) == {SubSeq(b, 1, n) : n \in 0..Len(b)}

\* Config.Verify without the rule on the parity of the control-plane count.
VerifyParityUnchecked(c) ==
  IF c = Nil THEN "configuration empty"
  ELSE IF ~(\E k \in DOMAIN Channels : Channels[k] = c.Version)
    THEN "unsupported version"
  ELSE IF Len(c.Nodes) = 0 THEN "no nodes specified"
  ELSE IF \A k \in DOMAIN c.Nodes : c.Nodes[k].Role # RoleServer
    THEN "no control-plane nodes specified"
  ELSE NoError

\* Config.Verify without the rule on the version.
VerifyVersionUnchecked(c) ==
  IF c = Nil THEN "configuration empty"
  ELSE IF Len(c.Nodes) = 0 THEN "no nodes specified"
  ELSE IF \A k \in DOMAIN c.Nodes : c.Nodes[k].Role # RoleServer
    THEN "no control-plane nodes specified"
  ELSE IF Cardinality({k \in DOMAIN c.Nodes : c.Nodes[k].Role = RoleServer}) % 2 = 0
    THEN "number of control-plane nodes must be odd"
  ELSE NoError

\* Config.Verify: the first violated rule, or NoError.
Verify(c) ==
  IF c = Nil THEN "configuration empty"
  ELSE IF ~(\E k \in DOMAIN Channels : Channels[k] = c.Version)
    THEN "unsupported version"
  ELSE IF Len(c.Nodes) = 0 THEN "no nodes specified"
  ELSE LET controlPlanes == Cardinality({k \in DOMAIN c.Nodes : c.Nodes[k].Role = RoleServer})
       IN IF controlPlanes = 0 THEN "no control-plane nodes specified"
          ELSE IF controlPlanes % 2 = 0 THEN "number of control-plane nodes must be odd"
          ELSE NoError

\* Engine.FilterNodes: the handles (indices) of the nodes matching the selector,
\* in node-list order.
FilterNodes(nodes, selector) ==
  SelectSeq([k \in DOMAIN nodes |-> k],
            LAMBDA k : nodes[k].Role = selector \/ selector = RoleAny)

AdvertisedPortListenFirst(c) ==
  IF c.Cluster.Server.HTTPSListenPort # 0 THEN c.Cluster.Server.HTTPSListenPort
  ELSE IF c.Cluster.Server.AdvertisePort # 0 THEN c.Cluster.Server.AdvertisePort
  ELSE DefaultPort

\* The port SetSpec puts into the advertised URL.
AdvertisedPort(c) ==
  IF c.Cluster.Server.AdvertisePort # 0 THEN c.Cluster.Server.AdvertisePort
  ELSE IF c.Cluster.Server.HTTPSListenPort # 0 THEN c.Cluster.Server.HTTPSListenPort
  ELSE DefaultPort

\* The advertised URL SetSpec computes.
AdvertisedURL(c) ==
  LET firstControlplane == FilterNodes(c.Nodes, RoleServer)[1]
  IN IF Len(c.Cluster.Server.TLSSAN) > 0
       THEN <<"https", c.Cluster.Server.TLSSAN[1], AdvertisedPort(c)>>
       ELSE <<"https", c.Nodes[firstControlplane].Host, AdvertisedPort(c)>>

Servers == IF spec = Nil THEN <<>> ELSE FilterNodes(spec.Nodes, RoleServer)
Agents == IF spec = Nil THEN <<>> ELSE FilterNodes(spec.Nodes, RoleAgent)
NodeIds == 1..(MaxServers + MaxAgents)
IsServer(n) == \E k \in DOMAIN Servers : Servers[k] = n
IsAgent(n) == \E k \in DOMAIN Agents : Agents[k] = n

NoCall == [called |-> FALSE]
NoFetch == [st |-> "none", bytes |-> <<>>]
NoToken == [read |-> FALSE, raw |-> <<>>]

(***************************************************************************)
(* Construction: engine.New.                                               *)
(***************************************************************************)
InitEngine ==
  /\ spec = Nil
  /\ serverURL = <<>>
  /\ clusterToken = <<>>
  /\ installer = <<>>
  /\ mutex = 0
  /\ cleanupPending = FALSE
  /\ mainPc = "idle"
  /\ i = 1
  /\ j = 1
  /\ env = <<>>
  /\ wg = 0
  /\ nodePc = [n \in NodeIds |-> "idle"]
  /\ respBody = [n \in NodeIds |-> <<>>]
  /\ fetch = [n \in NodeIds |-> NoFetch]
  /\ calls = [n \in NodeIds |-> NoCall]
  /\ tokenRead = [n \in NodeIds |-> NoToken]
  /\ netCalls = 0
  /\ installResult = "none"
  /\ op = "none"
  /\ opPc = "none"
  /\ config = Nil
  /\ ni = 1
  /\ proxies = 0
  /\ sshProxy = 0
  /\ client = [n \in NodeIds |-> "nil"]
  /\ via = [n \in NodeIds |-> 0]
  /\ log = <<>>
  /\ opErr = "none"
  /\ remoteFile = K3sDocument("ca1")
  /\ localFile = Nil
  /\ runs = <<>>
  /\ uploaded = [n \in NodeIds |-> Nil]

\* A new engine, the installer URL and the disk in good health.
Init ==
  /\ InitEngine
  /\ served = OkResponses
  /\ disk = "ok"

taskVars == <<mainPc, i, j, env, wg, nodePc, respBody, fetch, calls, tokenRead,
              netCalls, installResult>>

(***************************************************************************)
(* Engine.SetSpec.                                                         *)
(***************************************************************************)
\* SetSpec with e.Spec = config ahead of the verification.
SetSpecAssignFirst(c) ==
  /\ mainPc = "idle"
  /\ spec' = c
  /\ IF Verify(c) # NoError
       THEN UNCHANGED serverURL
       ELSE serverURL' = AdvertisedURL(c)
  /\ UNCHANGED <<clusterToken, installer, mutex, cleanupPending>>
  /\ UNCHANGED taskVars

SetSpec(c) ==
  /\ mainPc = "idle"
  /\ IF Verify(c) # NoError
       THEN UNCHANGED <<spec, serverURL>>
       ELSE /\ spec' = c
            /\ serverURL' = AdvertisedURL(c)
  /\ UNCHANGED <<clusterToken, installer, mutex, cleanupPending>>
  /\ UNCHANGED taskVars

(***************************************************************************)
(* Engine.ConfigureNode, run by the task that owns node n: the main        *)
(* goroutine for a server, the node's worker goroutine for an agent.       *)
(* It ends in "configured" (returned nil) or "failed" (returned an error). *)
(***************************************************************************)
Goto(n, pc) == nodePc' = [nodePc EXCEPT ![n] = pc]

\* e.cleanupPending = true, on entry.
ConfigureEnter(n) ==
  /\ nodePc[n] = "enter"
  /\ cleanupPending' = TRUE
  /\ Goto(n, "lock")
  /\ UNCHANGED <<spec, serverURL, clusterToken, installer, mutex>>
  /\ UNCHANGED <<mainPc, i, j, env, wg, respBody, fetch, calls, tokenRead,
                 netCalls, installResult>>

\* fetchInstallationScript: e.Lock() and the test len(e.installer) == 0.
FetchLock(n) ==
  /\ nodePc[n] = "lock"
  /\ mutex = 0
  /\ mutex' = n
  /\ Goto(n, IF Len(installer) = 0 THEN "get" ELSE "unlock")
  /\ UNCHANGED <<spec, serverURL, clusterToken, installer, cleanupPending>>
  /\ UNCHANGED <<mainPc, i, j, env, wg, respBody, fetch, calls, tokenRead,
                 netCalls, installResult>>

\* What the failing http.Get leaves of the mutex: the function returns the
\* error without reaching e.Unlock().
MutexAfterGetError(n) == mutex

\* What the failing io.ReadAll leaves of the mutex: as above.
MutexAfterReadError(n) == mutex

\* fetchInstallationScript: http.Get(InstallerURL).
FetchGet(n) ==
  /\ nodePc[n] = "get"
  /\ netCalls' = netCalls + 1
  /\ \/ /\ fetch' = [fetch EXCEPT ![n] = [st |-> "err", bytes |-> <<>>]]
        /\ mutex' = MutexAfterGetError(n)
        /\ Goto(n, "failed")
        /\ UNCHANGED respBody
     \/ \E resp \in served :
          /\ respBody' = [respBody EXCEPT ![n] = resp.body]
          /\ Goto(n, "read")
          /\ UNCHANGED <<fetch, mutex>>
  /\ UNCHANGED <<spec, serverURL, clusterToken, installer, cleanupPending>>
  /\ UNCHANGED <<mainPc, i, j, env, wg, calls, tokenRead, installResult>>

\* fetchInstallationScript: e.installer, err = io.ReadAll(resp.Body).
FetchRead(n) ==
  /\ nodePc[n] = "read"
  /\ \/ /\ installer' = respBody[n]
        /\ Goto(n, "unlock")
        /\ UNCHANGED <<fetch, mutex>>
     \/ \E partial \in Prefixes(respBody[n]) :
          /\ installer' = partial
          /\ fetch' = [fetch EXCEPT ![n] = [st |-> "err", bytes |-> <<>>]]
          /\ mutex' = MutexAfterReadError(n)
          /\ Goto(n, "failed")
  /\ respBody' = [respBody EXCEPT ![n] = <<>>]
  /\ UNCHANGED <<spec, serverURL, clusterToken, cleanupPending>>
  /\ UNCHANGED <<mainPc, i, j, env, wg, calls, tokenRead,
                 netCalls, installResult>>

\* fetchInstallationScript: e.Unlock().
FetchUnlock(n) ==
  /\ nodePc[n] = "unlock"
  /\ mutex' = 0
  /\ Goto(n, "ret")
  /\ UNCHANGED <<spec, serverURL, clusterToken, installer, cleanupPending>>
  /\ UNCHANGED <<mainPc, i, j, env, wg, respBody, fetch, calls, tokenRead,
                 netCalls, installResult>>

\* fetchInstallationScript: return e.installer, nil (read after the unlock).
FetchReturn(n) ==
  /\ nodePc[n] = "ret"
  /\ fetch' = [fetch EXCEPT ![n] = [st |-> "ok", bytes |-> installer]]
  /\ Goto(n, "upload_installer")
  /\ UNCHANGED engineVars
  /\ UNCHANGED <<mainPc, i, j, env, wg, respBody, calls, tokenRead,
                 netCalls, installResult>>

\* One remote operation of ConfigureNode (node.Upload or node.Do): it
\* succeeds and the next one follows, or it fails and ConfigureNode returns.
RemoteOp(n, here, next) ==
  /\ nodePc[n] = here
  /\ \/ Goto(n, next)
     \/ Goto(n, "failed")
  /\ UNCHANGED engineVars
  /\ UNCHANGED <<mainPc, i, j, env, wg, respBody, fetch, calls, tokenRead,
                 netCalls, installResult>>

UploadInstaller(n) == RemoteOp(n, "upload_installer", "chmod")
ChmodThenMkdir(n) == RemoteOp(n, "chmod", "mkdir")
ChmodInstaller(n) == RemoteOp(n, "chmod", "upload_config")
MkdirConfig(n) == RemoteOp(n, "mkdir", "move")
MoveConfig(n) == RemoteOp(n, "move", "configured")

(***************************************************************************)
(* The settings of a node: mergo.Merge(&node.Server, e.Spec.Cluster.Server,*)
(* mergo.WithOverride, mergo.WithAppendSlice), and the same for an agent.  *)
(***************************************************************************)
SliceFields == {"TLSSAN", "NodeLabel"}
IntFields == {"HTTPSListenPort", "AdvertisePort"}

\* The zero value of a field.
Zero(f) == IF f \in SliceFields THEN <<>> ELSE IF f \in IntFields THEN 0 ELSE ""

\* mergo.Merge with WithOverride and WithAppendSlice: a slice of dst gets the
\* slice of src appended; any other field of dst is overwritten by the field
\* of src unless that is empty.
MergoMerge(dst, src) ==
  [f \in DOMAIN dst |->
     IF f \in SliceFields THEN dst[f] \o src[f]
     ELSE IF src[f] # Zero(f) THEN src[f]
     ELSE dst[f]]

\* The node after the settings step of ConfigureNode, which writes into the
\* node of the spec.
MergedNode(c, n) ==
  LET node == c.Nodes[n]
      advertised == [node.Server EXCEPT
                       !.AdvertiseAddress = IF @ = "" THEN node.Host ELSE @]
  IN IF node.Role = RoleServer
       THEN [node EXCEPT !.Server = MergoMerge(advertised, c.Cluster.Server)]
     ELSE IF node.Role = RoleAgent
       THEN [node EXCEPT !.Agent = MergoMerge(node.Agent, c.Cluster.Agent)]
     ELSE node

\* yaml.Marshal of the fragment of the node's role; every field is omitempty.
\* For a node of another role configBytes stays nil: the file is empty.
ConfigBytes(node) ==
  LET fragment == IF node.Role = RoleServer THEN node.Server ELSE node.Agent
  IN IF node.Role \in {RoleServer, RoleAgent}
       THEN [f \in {g \in DOMAIN fragment : fragment[g] # Zero(g)} |-> fragment[f]]
     ELSE <<>>

\* The settings are merged and marshalled, then uploaded to
\* /tmp/k3se/config.yaml.
UploadConfig(n) ==
  /\ nodePc[n] = "upload_config"
  /\ spec' = [spec EXCEPT !.Nodes[n] = MergedNode(spec, n)]
  /\ \/ /\ Goto(n, "mkdir")
        /\ uploaded' = [uploaded EXCEPT ![n] = ConfigBytes(spec'.Nodes[n])]
     \/ /\ Goto(n, "failed")
        /\ UNCHANGED uploaded
  /\ UNCHANGED <<serverURL, clusterToken, installer, mutex, cleanupPending>>
  /\ UNCHANGED <<mainPc, i, j, env, wg, respBody, fetch, calls, tokenRead,
                 netCalls, installResult>>

ConfigureNode(n) ==
  \/ /\ \/ ConfigureEnter(n)
        \/ FetchLock(n)
        \/ FetchGet(n)
        \/ FetchRead(n)
        \/ FetchUnlock(n)
        \/ FetchReturn(n)
        \/ UploadInstaller(n)
        \/ ChmodInstaller(n)
        \/ MkdirConfig(n)
        \/ MoveConfig(n)
     /\ UNCHANGED uploaded
  \/ UploadConfig(n)

(***************************************************************************)
(* Engine.Install: installControlPlanes, then installWorkers.              *)
(***************************************************************************)
EnvSet(e, k, v) == [x \in (DOMAIN e) \cup {k} |-> IF x = k THEN v ELSE e[x]]

\* The env map installControlPlanes starts from.
ServerEnv(servers) ==
  [x \in {"INSTALL_K3S_FORCE_RESTART", "INSTALL_K3S_EXEC", "INSTALL_K3s_CHANNEL"} |->
     IF x = "INSTALL_K3S_FORCE_RESTART" THEN "true"
     ELSE IF x = "INSTALL_K3S_EXEC"
       THEN (IF Len(servers) > 1 THEN "server --cluster-init" ELSE "server")
     ELSE spec.Version]

JoinEnvAlways(e, idx) ==
  EnvSet(EnvSet(e, "K3S_URL", serverURL), "K3S_TOKEN", clusterToken)

\* if i > 0 { env["K3S_URL"] = e.serverURL; env["K3S_TOKEN"] = e.clusterToken }
\* (idx is the 1-based loop index).
JoinEnv(e, idx) ==
  IF idx > 1
    THEN EnvSet(EnvSet(e, "K3S_URL", serverURL), "K3S_TOKEN", clusterToken)
    ELSE e

\* The env map of a worker's install invocation.
AgentEnv ==
  [x \in {"INSTALL_K3S_FORCE_RESTART", "INSTALL_K3S_EXEC", "INSTALL_K3s_CHANNEL",
          "K3S_TOKEN", "K3S_URL"} |->
     IF x = "INSTALL_K3S_FORCE_RESTART" THEN "true"
     ELSE IF x = "INSTALL_K3S_EXEC" THEN "agent"
     ELSE IF x = "INSTALL_K3s_CHANNEL" THEN spec.Version
     ELSE IF x = "K3S_TOKEN" THEN clusterToken
     ELSE serverURL]

\* Install is entered and installControlPlanes reaches its loop.
InstallBegin ==
  /\ mainPc = "idle"
  /\ spec # Nil
  /\ env' = ServerEnv(Servers)
  /\ i' = 1
  /\ mainPc' = "cp_loop"
  /\ UNCHANGED engineVars
  /\ UNCHANGED <<j, wg, nodePc, respBody, fetch, calls, tokenRead, netCalls,
                 installResult>>

MoreServersOffByOne == i < Len(Servers)

\* The loop condition of installControlPlanes, i < len(servers), 1-based.
MoreServers == i <= Len(Servers)

\* installControlPlanes: the loop body starts with e.ConfigureNode(server).
ControlPlaneNext ==
  /\ mainPc = "cp_loop"
  /\ MoreServers
  /\ Goto(Servers[i], "enter")
  /\ mainPc' = "cp_configure"
  /\ UNCHANGED engineVars
  /\ UNCHANGED <<i, j, env, wg, respBody, fetch, calls, tokenRead, netCalls,
                 installResult>>

\* installControlPlanes: ConfigureNode returned an error, which is returned;
\* Install returns it in turn.
ControlPlaneConfigureFailed ==
  /\ mainPc = "cp_configure"
  /\ nodePc[Servers[i]] = "failed"
  /\ mainPc' = "done"
  /\ installResult' = "err"
  /\ UNCHANGED engineVars
  /\ UNCHANGED <<i, j, env, wg, nodePc, respBody, fetch, calls, tokenRead,
                 netCalls>>

ServerConfiguredUnchecked(n) == nodePc[n] \in {"configured", "failed"}

\* installControlPlanes: the test err == nil on the result of ConfigureNode.
ServerConfigured(n) == nodePc[n] = "configured"

\* installControlPlanes: ConfigureNode returned nil; the env map gets the
\* join settings and the install script is invoked.
ControlPlaneInstall ==
  /\ mainPc = "cp_configure"
  /\ ServerConfigured(Servers[i])
  /\ env' = JoinEnv(env, i)
  /\ calls' = [calls EXCEPT ![Servers[i]] = [called |-> TRUE, env |-> env']]
  /\ \/ /\ Goto(Servers[i], "installed")
        /\ mainPc' = "cp_token"
        /\ UNCHANGED installResult
     \/ /\ Goto(Servers[i], "install_failed")
        /\ mainPc' = "done"
        /\ installResult' = "err"
  /\ UNCHANGED engineVars
  /\ UNCHANGED <<i, j, wg, respBody, fetch, tokenRead, netCalls>>

FetchClusterTokenSwallow ==
  /\ mainPc = "cp_token"
  /\ \/ \E raw \in RawTokens :
          /\ clusterToken' = TrimSpace(raw)
          /\ tokenRead' = [tokenRead EXCEPT ![Servers[i]] = [read |-> TRUE, raw |-> raw]]
          /\ Goto(Servers[i], "done")
     \/ /\ Goto(Servers[i], "token_failed")
        /\ UNCHANGED <<clusterToken, tokenRead>>
  /\ i' = i + 1
  /\ mainPc' = "cp_loop"
  /\ UNCHANGED <<spec, serverURL, installer, mutex, cleanupPending>>
  /\ UNCHANGED <<j, env, wg, respBody, fetch, calls, netCalls, installResult>>

\* installControlPlanes: e.fetchClusterToken(server), then i++.
FetchClusterToken ==
  /\ mainPc = "cp_token"
  /\ \/ \E raw \in RawTokens :
          /\ clusterToken' = TrimSpace(raw)
          /\ tokenRead' = [tokenRead EXCEPT ![Servers[i]] = [read |-> TRUE, raw |-> raw]]
          /\ Goto(Servers[i], "done")
          /\ i' = i + 1
          /\ mainPc' = "cp_loop"
          /\ UNCHANGED installResult
     \/ /\ Goto(Servers[i], "token_failed")
        /\ mainPc' = "done"
        /\ installResult' = "err"
        /\ UNCHANGED <<clusterToken, tokenRead, i>>
  /\ UNCHANGED <<spec, serverURL, installer, mutex, cleanupPending>>
  /\ UNCHANGED <<j, env, wg, respBody, fetch, calls, netCalls>>

\* installControlPlanes returned nil and installWorkers begins: with no
\* agents it returns nil at once.
InstallWorkersBegin ==
  /\ mainPc = "cp_loop"
  /\ ~MoreServers
  /\ j' = 1
  /\ IF Len(Agents) > 0
       THEN /\ mainPc' = "spawn"
            /\ UNCHANGED installResult
       ELSE /\ mainPc' = "done"
            /\ installResult' = "nil"
  /\ UNCHANGED engineVars
  /\ UNCHANGED <<i, env, wg, nodePc, respBody, fetch, calls, tokenRead, netCalls>>

\* installWorkers: wg.Add(1) and go func(agent) for the next agent.
WorkerSpawn ==
  /\ mainPc = "spawn"
  /\ j <= Len(Agents)
  /\ wg' = wg + 1
  /\ Goto(Agents[j], "enter")
  /\ j' = j + 1
  /\ UNCHANGED engineVars
  /\ UNCHANGED <<mainPc, i, env, respBody, fetch, calls, tokenRead, netCalls,
                 installResult>>

\* installWorkers: the spawn loop is over, wg.Wait() is entered.
WorkersSpawned ==
  /\ mainPc = "spawn"
  /\ j > Len(Agents)
  /\ mainPc' = "wait"
  /\ UNCHANGED engineVars
  /\ UNCHANGED <<i, j, env, wg, nodePc, respBody, fetch, calls, tokenRead,
                 netCalls, installResult>>

WaitSkipped == TRUE

\* What wg.Wait() waits for.
WaitOver == wg = 0

\* installWorkers: wg.Wait() returns, then return nil; Install returns it.
WorkersWait ==
  /\ mainPc = "wait"
  /\ WaitOver
  /\ mainPc' = "done"
  /\ installResult' = "nil"
  /\ UNCHANGED engineVars
  /\ UNCHANGED <<i, j, env, wg, nodePc, respBody, fetch, calls, tokenRead,
                 netCalls>>

\* Worker goroutine: ConfigureNode failed; the error is logged, the task
\* returns and the deferred wg.Done() runs.
WorkerConfigureFailed(n) ==
  /\ nodePc[n] = "failed"
  /\ IsAgent(n)
  /\ Goto(n, "task_failed")
  /\ wg' = wg - 1
  /\ UNCHANGED engineVars
  /\ UNCHANGED <<mainPc, i, j, env, respBody, fetch, calls, tokenRead,
                 netCalls, installResult>>

\* Worker goroutine: the install script is invoked; then the task returns
\* (logging a failure) and the deferred wg.Done() runs.
WorkerInstall(n) ==
  /\ nodePc[n] = "configured"
  /\ IsAgent(n)
  /\ calls' = [calls EXCEPT ![n] = [called |-> TRUE, env |-> AgentEnv]]
  /\ \/ Goto(n, "task_done")
     \/ Goto(n, "task_failed")
  /\ wg' = wg - 1
  /\ UNCHANGED engineVars
  /\ UNCHANGED <<mainPc, i, j, env, respBody, fetch, tokenRead, netCalls,
                 installResult>>

\* The engine used on its own: SetSpec and Install, no operation of pkg/ops.
Next ==
  \/ (\E c \in Configs : SetSpec(c)) /\ UNCHANGED <<opsVars, restVars>>
  \/ InstallBegin /\ UNCHANGED <<opsVars, restVars>>
  \/ ControlPlaneNext /\ UNCHANGED <<opsVars, restVars>>
  \/ ControlPlaneConfigureFailed /\ UNCHANGED <<opsVars, restVars>>
  \/ ControlPlaneInstall /\ UNCHANGED <<opsVars, restVars>>
  \/ FetchClusterToken /\ UNCHANGED <<opsVars, restVars>>
  \/ InstallWorkersBegin /\ UNCHANGED <<opsVars, restVars>>
  \/ WorkerSpawn /\ UNCHANGED <<opsVars, restVars>>
  \/ WorkersSpawned /\ UNCHANGED <<opsVars, restVars>>
  \/ WorkersWait /\ UNCHANGED <<opsVars, restVars>>
  \/ (\E n \in NodeIds : ConfigureNode(n)) /\ UNCHANGED <<opsVars, kubeVars, served, disk>>
  \/ (\E n \in NodeIds : WorkerConfigureFailed(n)) /\ UNCHANGED <<opsVars, restVars>>
  \/ (\E n \in NodeIds : WorkerInstall(n)) /\ UNCHANGED <<opsVars, restVars>>

Spec == Init /\ [][Next]_vars

(***************************************************************************)
(* Properties of Install.                                                  *)
(***************************************************************************)
HasJoin(c) == {"K3S_URL", "K3S_TOKEN"} \subseteq DOMAIN c.env
Running(n) == nodePc[n] \notin {"idle", "task_done", "task_failed"}
ServerFailed(n) == nodePc[n] \in {"failed", "install_failed", "token_failed"}

\* C1: with three control-plane nodes, the token read from the first one is
\* the token in the install invocation of the second and the third
\* control-plane node and of every worker, whatever the token reads return.
C1_FirstTokenEverywhere ==
  Len(Servers) = 3 =>
    \A n \in NodeIds :
      (calls[n].called /\ (n = Servers[2] \/ n = Servers[3] \/ IsAgent(n))) =>
        /\ "K3S_TOKEN" \in DOMAIN calls[n].env
        /\ calls[n].env["K3S_TOKEN"] = TrimSpace(tokenRead[Servers[1]].raw)

\* C2: control-plane nodes are handled one at a time in node-list order: a
\* control-plane node is touched only when every control-plane node before
\* it in the list has had its install invocation and its token read succeed.
C2_ControlPlanesInOrder ==
  LET servers == IF spec = Nil THEN <<>> ELSE FilterNodes(spec.Nodes, RoleServer)
  IN \A k \in DOMAIN servers :
       nodePc[servers[k]] # "idle" =>
         \A m \in 1..(k - 1) :
           /\ servers[m] < servers[k]
           /\ nodePc[servers[m]] = "done"
           /\ calls[servers[m]].called
           /\ tokenRead[servers[m]].read

C2_Witness ==
  /\ Len(Servers) = 3
  /\ nodePc[Servers[2]] = "done"
  /\ nodePc[Servers[3]] = "enter"

\* C3: the install invocation of the first control-plane node carries no
\* join URL and no join token; the invocation of every later control-plane
\* node carries the join URL and the join token the engine holds at the
\* moment of the invocation.
C3_JoinSettingsAfterFirst ==
  [][\A k \in DOMAIN Servers :
       calls'[Servers[k]] # calls[Servers[k]] =>
         LET e == calls'[Servers[k]].env
         IN IF k = 1
              THEN "K3S_URL" \notin DOMAIN e /\ "K3S_TOKEN" \notin DOMAIN e
              ELSE /\ HasJoin(calls'[Servers[k]])
                   /\ e["K3S_URL"] = serverURL
                   /\ e["K3S_TOKEN"] = clusterToken]_vars

C3_Witness ==
  /\ Len(Servers) = 3
  /\ calls[Servers[1]].called
  /\ calls[Servers[3]].called
  /\ calls[Servers[3]].env["K3S_TOKEN"] # calls[Servers[2]].env["K3S_TOKEN"]

\* C4: a worker task starts only when every control-plane node is done, the
\* join token and the join URL are not written while a worker task runs, and
\* all worker install invocations carry the same join URL and join token.
C4_WorkersAfterControlPlanes ==
  /\ [](LET agents == {Agents[k] : k \in DOMAIN Agents}
            servers == {Servers[k] : k \in DOMAIN Servers}
        IN (\E n \in agents : nodePc[n] # "idle") =>
             \A s \in servers : nodePc[s] = "done" /\ tokenRead[s].read)
  /\ [](LET invoked == {n \in {Agents[k] : k \in DOMAIN Agents} : calls[n].called}
        IN \A n, m \in invoked :
             /\ HasJoin(calls[n])
             /\ calls[n].env["K3S_URL"] = calls[m].env["K3S_URL"]
             /\ calls[n].env["K3S_TOKEN"] = calls[m].env["K3S_TOKEN"])
  /\ [][(\E k \in DOMAIN Agents : Running(Agents[k])) =>
          (clusterToken' = clusterToken /\ serverURL' = serverURL)]_vars

C4_Witness ==
  /\ Len(Servers) = 3
  /\ \E n, m \in NodeIds :
       /\ n # m
       /\ IsAgent(n) /\ IsAgent(m)
       /\ calls[n].called /\ calls[m].called

\* C5: once a step has failed for a control-plane node, no node is invoked
\* and no node's configuration is begun any more, and Install returns an
\* error.
C5_ControlPlaneFailureAborts ==
  /\ [][(\E k \in DOMAIN Servers : ServerFailed(Servers[k])) =>
          /\ calls' = calls
          /\ \A n \in NodeIds : nodePc[n] = "idle" => nodePc'[n] = "idle"
          /\ mainPc' = "done" /\ installResult' = "err"]_vars
  /\ [](\A k \in DOMAIN Servers :
          nodePc[Servers[k]] \in {"install_failed", "token_failed"} =>
            mainPc = "done" /\ installResult = "err")

C5_Witness ==
  /\ Len(Servers) = 3
  /\ Len(Agents) > 0
  /\ nodePc[Servers[1]] = "done"
  /\ nodePc[Servers[2]] = "failed"
  /\ mainPc = "done"

\* C6: a worker task that failed never keeps another worker task from
\* running its own steps: no worker waits for the engine mutex while the
\* task that holds it has ended in failure.
C6_WorkerFailureIsolated ==
  \A n, m \in NodeIds :
    (IsAgent(n) /\ IsAgent(m) /\ n # m /\ nodePc[n] \in {"failed", "task_failed"}) =>
      ~(nodePc[m] = "lock" /\ mutex = n)

\* C7: when installWorkers (and so Install) has returned, no worker task is
\* still running; after a worker phase every worker task has ended.
C7_WorkersJoined ==
  mainPc = "done" =>
    \A k \in DOMAIN Agents :
      /\ ~Running(Agents[k])
      /\ installResult = "nil" => nodePc[Agents[k]] \in {"task_done", "task_failed"}

C7_Witness ==
  /\ mainPc = "done"
  /\ installResult = "nil"
  /\ \E n, m \in NodeIds :
       /\ IsAgent(n) /\ IsAgent(m)
       /\ nodePc[n] = "task_done"
       /\ nodePc[m] = "task_failed"

\* C8: when a worker task has failed, Install returns an error.
C8_WorkerFailureSurfaced ==
  (mainPc = "done" /\ \E n \in NodeIds : IsAgent(n) /\ nodePc[n] = "task_failed") =>
    installResult = "err"

\* C9: when the worker tasks have all fetched the installer, one network
\* request has been made on the engine and all of them got the same bytes.
C9_SingleDownload ==
  (Len(Agents) >= 2 /\ \A n \in NodeIds : IsAgent(n) => fetch[n].st = "ok") =>
    /\ netCalls = 1
    /\ \A n, m \in NodeIds :
         (IsAgent(n) /\ IsAgent(m)) => fetch[n].bytes = fetch[m].bytes

\* C10: a failed installer fetch leaves nothing in the cache and does not
\* leave the engine mutex held by the call that failed, so that a later call
\* can make its own request.
C10_FailedFetchNotCached ==
  \A n \in NodeIds :
    fetch[n].st = "err" => (installer = <<>> /\ mutex # n)

\* C26: with more than one control-plane node, the install invocation of
\* the first one selects cluster initialisation ("server --cluster-init")
\* and that of every later one a joining server ("server" with the join
\* settings); with one control-plane node its invocation selects "server".
C26_OnlyFirstInitialises ==
  \A k \in DOMAIN Servers :
    calls[Servers[k]].called =>
      LET e == calls[Servers[k]].env
      IN IF Len(Servers) > 1 /\ k = 1
           THEN e["INSTALL_K3S_EXEC"] = "server --cluster-init"
           ELSE /\ e["INSTALL_K3S_EXEC"] = "server"
                /\ k > 1 => HasJoin(calls[Servers[k]])

\* The fields of the engine that the step of ConfigureNode at position pc
\* assigns: e.cleanupPending on entry, e.installer from io.ReadAll, and the
\* node of e.Spec.Nodes the settings are merged into.
EngineWrites(pc) ==
  IF pc = "enter" THEN {"cleanupPending"}
  ELSE IF pc = "read" THEN {"installer"}
  ELSE IF pc = "upload_config" THEN {"Spec"}
  ELSE {}

\* C27: the only engine field a worker task writes is the installer cache,
\* it writes it holding the engine mutex, and no two worker tasks are at a
\* write of one and the same other engine field at the same time.
C27_WorkerWritesGuarded ==
  /\ \A k \in DOMAIN Agents :
       /\ EngineWrites(nodePc[Agents[k]]) \subseteq {"installer"}
       /\ "installer" \in EngineWrites(nodePc[Agents[k]]) => mutex = Agents[k]
  /\ \A k, m \in DOMAIN Agents :
       k # m =>
         (EngineWrites(nodePc[Agents[k]]) \cap EngineWrites(nodePc[Agents[m]]))
           \subseteq {"installer"}

\* The remote steps of the configuration of a node, in order: upload the
\* installer, mark it executable, upload the settings to the temporary path,
\* create the system configuration directory, move the settings into place.
ConfigureSteps == <<"upload_installer", "chmod", "upload_config", "mkdir", "move">>

\* C30: on every node the steps of ConfigureSteps run in that order, each
\* entered only from the one before it (the first from the installer fetch);
\* a step ends in the next step or in failure, after a failure no step runs
\* on the node, and the install script is invoked on a node only when the
\* last step has succeeded on it.
C30_StepsInOrder ==
  [][\A n \in NodeIds :
       /\ \A k \in DOMAIN ConfigureSteps :
            /\ (nodePc[n] = ConfigureSteps[k] /\ nodePc'[n] # nodePc[n]) =>
                 nodePc'[n] \in {IF k < Len(ConfigureSteps) THEN ConfigureSteps[k + 1]
                                 ELSE "configured",
                                 "failed"}
            /\ (nodePc'[n] = ConfigureSteps[k] /\ nodePc'[n] # nodePc[n]) =>
                 nodePc[n] = (IF k > 1 THEN ConfigureSteps[k - 1] ELSE "ret")
       /\ (nodePc'[n] = "configured" /\ nodePc[n] # "configured") => nodePc[n] = "move"
       /\ nodePc[n] = "failed" => nodePc'[n] \in {"failed", "task_failed"}
       /\ nodePc[n] = "failed" => calls'[n] = calls[n]
       /\ calls'[n] # calls[n] => nodePc[n] = "configured"]_vars

\* C30 witness: one worker went through every step and was invoked, another
\* failed after its settings were uploaded and was not invoked.
C30_Witness ==
  \E n, m \in NodeIds :
    /\ IsAgent(n) /\ IsAgent(m)
    /\ calls[n].called /\ uploaded[n] # Nil
    /\ nodePc[m] = "task_failed" /\ uploaded[m] # Nil /\ ~calls[m].called

(***************************************************************************)
(* The engine used on its own while the installer URL can answer with an   *)
(* error status.                                                           *)
(***************************************************************************)
FetchInit ==
  /\ InitEngine
  /\ served = Responses
  /\ disk = "ok"

FetchSpec == FetchInit /\ [][Next]_vars

\* C28: the body of a response with a status that is not a success is never
\* taken for the installer: no call of fetchInstallationScript gets past its
\* read with that body in the cache, and none returns it to ConfigureNode,
\* which would upload it.
C28_ErrorStatusRejected ==
  \A n \in NodeIds :
    /\ nodePc[n] \in {"unlock", "ret"} => installer # ErrorPage
    /\ fetch[n].st = "ok" => fetch[n].bytes # ErrorPage

(***************************************************************************)
(* The operations of pkg/ops: Up, Down and KubeConfig.  Each loads the     *)
(* configuration, creates an engine, calls SetSpec and Connect, then       *)
(* Install, Uninstall or Engine.KubeConfig, then Disconnect, and returns   *)
(* the first error any of them returns.                                    *)
(***************************************************************************)
ProxyHost == "bastion"

\* Documents with one worker (n1) and one control-plane node (n2) and a
\* cluster-wide advertise port, HTTPS listen port or TLS
\* subject-alternative-name.
AdvertisedConfigs ==
  {[MkConfig("stable", Alternate(1, 1)) EXCEPT
      !.Cluster.Server.AdvertisePort = p[1], !.Cluster.Server.HTTPSListenPort = p[2],
      !.Cluster.Server.TLSSAN = t] :
     p \in {<<0, 0>>, <<8443, 0>>, <<0, 7443>>, <<8443, 7443>>},
     t \in {<<>>, <<"api", "default">>}}

\* Documents with one control-plane node (n1) and a second node whose role
\* is neither "server" nor "agent": Role is a string that yaml.Unmarshal
\* stores as it finds it.
OtherRoleConfigs == {MkConfig("stable", <<RoleServer, r>>) : r \in {RoleAny, ""}}

\* What LoadConfig can return: the documents of Configs, each without and
\* with a proxy host, and those of AdvertisedConfigs and OtherRoleConfigs.
OpsConfigs ==
  Configs \cup {[c EXCEPT !.SSHProxy = ProxyHost] : c \in Configs}
    \cup AdvertisedConfigs \cup OtherRoleConfigs

Operations == {"up", "down", "kubeconfig"}

Logged(entry) == log' = Append(log, entry)

\* `return err` in the operation.
OpReturn(err) ==
  /\ opPc' = "returned"
  /\ opErr' = err

\* LoadConfig and engine.New.
OpBegin(o, c) ==
  /\ op = "none"
  /\ mainPc = "idle"
  /\ spec = Nil
  /\ op' = o
  /\ config' = c
  /\ opPc' = "setspec"
  /\ UNCHANGED <<ni, proxies, sshProxy, client, via, log, opErr>>
  /\ UNCHANGED <<installVars, restVars>>

\* eng.SetSpec(config), and the return of its error.
OpSetSpec ==
  /\ opPc = "setspec"
  /\ SetSpec(config)
  /\ IF Verify(config) # NoError
       THEN OpReturn(Verify(config))
       ELSE opPc' = "connect" /\ UNCHANGED opErr
  /\ UNCHANGED <<op, config, ni, proxies, sshProxy, client, via, log>>
  /\ UNCHANGED restVars

(***************************************************************************)
(* Engine.Connect.                                                         *)
(***************************************************************************)
\* The proxy part: sshx.NewClient(&e.Spec.SSHProxy) if a host is given.
ConnectProxy ==
  /\ opPc = "connect"
  /\ IF spec.SSHProxy # ""
       THEN /\ Logged(<<"proxy", spec.SSHProxy>>)
            /\ \/ /\ proxies' = proxies + 1
                  /\ sshProxy' = proxies + 1
                  /\ opPc' = "connect_node"
                  /\ UNCHANGED opErr
               \/ /\ OpReturn("proxy unreachable")
                  /\ UNCHANGED <<proxies, sshProxy>>
       ELSE /\ opPc' = "connect_node"
            /\ UNCHANGED <<proxies, sshProxy, log, opErr>>
  /\ ni' = 1
  /\ UNCHANGED <<op, config, client, via>>
  /\ UNCHANGED <<installVars, restVars>>

\* The default of the connection options, Proxy: nil: a direct dial.
NodeProxyNone == 0

\* The proxy handed to node.Connect: WithSSHProxy(sshProxy).
NodeProxy == sshProxy

\* One turn of the loop: node.Connect, which assigns node.Client.
ConnectNode ==
  /\ opPc = "connect_node"
  /\ ni <= Len(spec.Nodes)
  /\ Logged(<<"dial", ni>>)
  /\ \/ /\ client' = [client EXCEPT ![ni] = "open"]
        /\ via' = [via EXCEPT ![ni] = NodeProxy]
        /\ ni' = ni + 1
        /\ UNCHANGED <<opPc, opErr>>
     \/ /\ client' = [client EXCEPT ![ni] = "nil"]
        /\ OpReturn("node unreachable")
        /\ UNCHANGED <<via, ni>>
  /\ UNCHANGED <<op, config, proxies, sshProxy>>
  /\ UNCHANGED <<installVars, restVars>>

\* The loop is over: Connect returns nil.
ConnectDone ==
  /\ opPc = "connect_node"
  /\ ni > Len(spec.Nodes)
  /\ opPc' = "run"
  /\ ni' = 1
  /\ UNCHANGED <<op, config, proxies, sshProxy, client, via, log, opErr>>
  /\ UNCHANGED <<installVars, restVars>>

(***************************************************************************)
(* Up: Engine.Install between Connect and Disconnect.                      *)
(***************************************************************************)
UpInstall ==
  /\ op = "up"
  /\ opPc = "run"
  /\ InstallBegin
  /\ opPc' = "install"
  /\ UNCHANGED <<op, config, ni, proxies, sshProxy, client, via, log, opErr>>
  /\ UNCHANGED restVars

\* Install has returned: an error is returned, otherwise Disconnect is next.
UpInstalled ==
  /\ op = "up"
  /\ opPc = "install"
  /\ installResult # "none"
  /\ IF installResult = "nil"
       THEN opPc' = "disconnect" /\ UNCHANGED opErr
       ELSE OpReturn(installResult)
  /\ ni' = 1
  /\ UNCHANGED <<op, config, proxies, sshProxy, client, via, log>>
  /\ UNCHANGED <<installVars, restVars>>

(***************************************************************************)
(* Down: Engine.Uninstall between Connect and Disconnect.                  *)
(***************************************************************************)
UninstallScriptServerOnly(role) ==
  IF role = RoleServer THEN "k3s-uninstall.sh" ELSE "k3s-agent-uninstall.sh"

\* uninstallScript, by the role of the node.
UninstallScript(role) ==
  IF role = RoleAgent THEN "k3s-agent-uninstall.sh" ELSE "k3s-uninstall.sh"

\* One turn of the loop of Uninstall.
UninstallNode ==
  /\ op = "down"
  /\ opPc = "run"
  /\ ni <= Len(spec.Nodes)
  /\ Logged(<<"run", ni, UninstallScript(spec.Nodes[ni].Role)>>)
  /\ \/ ni' = ni + 1 /\ UNCHANGED <<opPc, opErr>>
     \/ OpReturn("uninstall failed") /\ UNCHANGED ni
  /\ UNCHANGED <<op, config, proxies, sshProxy, client, via>>
  /\ UNCHANGED <<installVars, restVars>>

UninstallDone ==
  /\ op = "down"
  /\ opPc = "run"
  /\ ni > Len(spec.Nodes)
  /\ opPc' = "disconnect"
  /\ ni' = 1
  /\ UNCHANGED <<op, config, proxies, sshProxy, client, via, log, opErr>>
  /\ UNCHANGED <<installVars, restVars>>

(***************************************************************************)
(* Engine.Disconnect.                                                      *)
(***************************************************************************)
CleanupAlways == TRUE

\* if e.cleanupPending
CleanupWanted == cleanupPending

\* One turn of the loop, first half: rm -rf /tmp/k3se if e.cleanupPending.
DisconnectCleanup ==
  /\ opPc = "disconnect"
  /\ ni <= Len(spec.Nodes)
  /\ IF CleanupWanted
       THEN /\ Logged(<<"rm", ni>>)
            /\ \/ opPc' = "close" /\ UNCHANGED opErr
               \/ OpReturn("cleanup failed")
       ELSE /\ opPc' = "close"
            /\ UNCHANGED <<log, opErr>>
  /\ UNCHANGED <<op, config, ni, proxies, sshProxy, client, via>>
  /\ UNCHANGED <<installVars, restVars>>

\* Second half: node.Disconnect, which closes node.Client unless it is nil.
DisconnectNode ==
  /\ opPc = "close"
  /\ IF client[ni] # "nil"
       THEN /\ Logged(<<"close", ni>>)
            /\ \/ /\ client' = [client EXCEPT ![ni] = "closed"]
                  /\ opPc' = "disconnect"
                  /\ ni' = ni + 1
                  /\ UNCHANGED opErr
               \/ /\ OpReturn("close failed")
                  /\ UNCHANGED <<client, ni>>
       ELSE /\ opPc' = "disconnect"
            /\ ni' = ni + 1
            /\ UNCHANGED <<client, log, opErr>>
  /\ UNCHANGED <<op, config, proxies, sshProxy, via>>
  /\ UNCHANGED <<installVars, restVars>>

\* The loop is over: Disconnect returns nil and so does the operation.
DisconnectDone ==
  /\ opPc = "disconnect"
  /\ ni > Len(spec.Nodes)
  /\ OpReturn(NoError)
  /\ UNCHANGED <<op, config, ni, proxies, sshProxy, client, via, log>>
  /\ UNCHANGED <<installVars, restVars>>

(***************************************************************************)
(* Properties of the operations.                                           *)
(***************************************************************************)
InLog(entry) == \E x \in DOMAIN log : log[x] = entry

\* Disconnect was called and has returned, with or without an error.
DisconnectReturned ==
  /\ opPc = "returned"
  /\ opErr \in {NoError, "cleanup failed", "close failed"}

\* C11: once Disconnect has returned, with or without an error, closing the
\* session has been attempted on every node of the spec: a failed removal of
\* the temporary directory or a failed close on one node does not keep
\* Disconnect from the remaining nodes.
C11_DisconnectClosesAll ==
  DisconnectReturned =>
    \A n \in DOMAIN spec.Nodes : InLog(<<"close", n>>)

\* Connect has failed on a node session and the operation has returned.
ConnectFailedOnNode == opPc = "returned" /\ opErr = "node unreachable"

\* The proxy session is open: Connect keeps it in a local variable and no
\* code closes it.
ProxyOpen == sshProxy # 0

\* C12: when Connect has failed on the session to node ni and the error has
\* been returned, no session to a later node was attempted, and the sessions
\* opened before (to the earlier nodes and to the proxy) have been closed.
C12_ConnectFailureClosesOpened ==
  ConnectFailedOnNode =>
    /\ \A n \in DOMAIN spec.Nodes : n > ni => ~InLog(<<"dial", n>>)
    /\ \A n \in DOMAIN spec.Nodes : n < ni => client[n] = "closed"
    /\ ~ProxyOpen

\* The positions of the log that hold a proxy connection attempt.
ProxyDials == {x \in DOMAIN log : log[x][1] = "proxy"}

\* The positions of the log that hold a node connection attempt.
NodeDials == {x \in DOMAIN log : log[x][1] = "dial"}

\* C13: Connect opens one proxy session if a proxy host is configured and
\* none otherwise; it is opened before any node session is attempted, and
\* every node session is dialled through that one proxy session (directly
\* if there is none).
C13_OneSharedProxy ==
  spec # Nil =>
    /\ spec.SSHProxy = "" => proxies = 0 /\ ProxyDials = {}
    /\ spec.SSHProxy # "" =>
         /\ Cardinality(ProxyDials) <= 1
         /\ NodeDials # {} => proxies = 1
         /\ \A x \in NodeDials : \E y \in ProxyDials : y < x
    /\ \A n \in DOMAIN spec.Nodes :
         client[n] # "nil" => via[n] = proxies

\* C13 witness: a proxy is configured and two node sessions are open, both
\* dialled through the proxy session.
C13_Witness ==
  /\ spec # Nil
  /\ spec.SSHProxy # ""
  /\ proxies = 1
  /\ \E m, n \in DOMAIN spec.Nodes :
       m # n /\ client[m] = "open" /\ client[n] = "open" /\ via[m] = 1 /\ via[n] = 1

(***************************************************************************)
(* Config.Verify on its own, applied to configurations with up to          *)
(* MaxControlPlanes control-plane nodes.                                   *)
(***************************************************************************)
MaxControlPlanes == 6

VerifyVersions == {"stable", "latest", "testing", "v1"}

VerifyConfigs ==
  {MkConfig(v, Alternate(s, a)) :
     v \in VerifyVersions, s \in 0..MaxControlPlanes, a \in 0..MaxAgents}

\* A configuration document is parsed.
VerifyLoad(c) ==
  /\ op = "none"
  /\ op' = "verify"
  /\ opPc' = "verify"
  /\ config' = c
  /\ UNCHANGED <<ni, proxies, sshProxy, client, via, log, opErr>>
  /\ UNCHANGED <<installVars, restVars>>

\* config.Verify() and what it returns.
VerifyCall ==
  /\ opPc = "verify"
  /\ opErr' = Verify(config)
  /\ opPc' = "verified"
  /\ UNCHANGED <<op, config, ni, proxies, sshProxy, client, via, log>>
  /\ UNCHANGED <<installVars, restVars>>

VerifyNext ==
  \/ \E c \in VerifyConfigs : VerifyLoad(c)
  \/ VerifyCall

VerifySpec == Init /\ [][VerifyNext]_vars

ControlPlaneCount(c) ==
  Cardinality({n \in DOMAIN c.Nodes : c.Nodes[n].Role = RoleServer})

\* C14: for a configuration with a whitelisted version and at least one node,
\* Verify returns an error if the number of control-plane nodes is 0 or even
\* and returns nil if it is odd.
C14_VerifyParity ==
  ( /\ opPc = "verified"
    /\ config.Version \in {"stable", "latest", "testing"}
    /\ Len(config.Nodes) > 0 ) =>
      IF ControlPlaneCount(config) % 2 = 0
        THEN opErr # NoError
        ELSE opErr = NoError

\* C14 witness: four control-plane nodes are rejected for their parity.
C14_Witness ==
  /\ opPc = "verified"
  /\ config.Version = "latest"
  /\ ControlPlaneCount(config) = 4
  /\ opErr = "number of control-plane nodes must be odd"

(***************************************************************************)
(* Engine.KubeConfig.  A credential document is a record of three maps     *)
(* (name to entry) and the name of the current context.                    *)
(***************************************************************************)
MaxRuns == 2

\* url.Parse(e.serverURL).Hostname() and .Port().
Hostname(u) == u[2]
Port(u) == ToString(u[3])

\* delete(m, k)
Delete(m, k) == [x \in (DOMAIN m) \ {k} |-> m[x]]

\* m[to] = m[from]; delete(m, from)
Rename(m, from, to) == Delete(EnvSet(m, to, m[from]), from)

\* The name given to the cluster entry in interactive mode.
ClusterName(u) ==
  IF Port(u) # "6443" THEN Hostname(u) \o ":" \o Port(u) ELSE Hostname(u)

InteractiveAlways(ci) == TRUE

\* newConfig with the entries renamed but the server address left as found.
NewConfigUnfixed(remote, u, ci) ==
  LET cluster == IF ToString(u[3]) # "6443" THEN u[2] \o ":" \o ToString(u[3]) ELSE u[2]
      context == "admin@" \o cluster
  IN IF ci THEN remote
     ELSE [Clusters |-> [x \in {cluster} |-> remote.Clusters["default"]],
           AuthInfos |-> [x \in {context} |-> remote.AuthInfos["default"]],
           Contexts |-> [x \in {context} |-> [Cluster |-> cluster, AuthInfo |-> context]],
           CurrentContext |-> context]

\* os.Getenv("CI") == "": the entries are renamed for humans.
Interactive(ci) == ~ci

\* newConfig after the server URL is fixed and the entries are renamed.
NewConfig(remote, u, ci) ==
  LET fixed == [remote EXCEPT !.Clusters["default"].Server = u]
      cluster == ClusterName(u)
      context == "admin@" \o cluster
  IN IF Interactive(ci)
       THEN [Clusters |-> Rename(fixed.Clusters, "default", cluster),
             AuthInfos |-> Rename(fixed.AuthInfos, "default", context),
             Contexts |-> [Rename(fixed.Contexts, "default", context) EXCEPT
                             ![context] = [Cluster |-> cluster, AuthInfo |-> context]],
             CurrentContext |-> context]
       ELSE fixed

\* for name, entry := range new { old[name] = entry }
Overwrite(old, new) ==
  [x \in (DOMAIN old) \cup (DOMAIN new) |-> IF x \in DOMAIN new THEN new[x] ELSE old[x]]

MergedOldFirst(old, new) ==
  [old EXCEPT !.Clusters = Overwrite(new.Clusters, old.Clusters),
              !.AuthInfos = Overwrite(new.AuthInfos, old.AuthInfos),
              !.Contexts = Overwrite(new.Contexts, old.Contexts)]

MergedWithoutCurrent(old, new) ==
  [Clusters |-> Overwrite(old.Clusters, new.Clusters),
   AuthInfos |-> Overwrite(old.AuthInfos, new.AuthInfos),
   Contexts |-> Overwrite(old.Contexts, new.Contexts),
   CurrentContext |-> ""]

\* oldConfig after the three merge loops.
Merged(old, new) ==
  [old EXCEPT !.Clusters = Overwrite(old.Clusters, new.Clusters),
              !.AuthInfos = Overwrite(old.AuthInfos, new.AuthInfos),
              !.Contexts = Overwrite(old.Contexts, new.Contexts)]

\* The errors KubeConfig can return before it writes: of server.Do, of
\* clientcmd.Load on the download, of url.Parse, of os.UserHomeDir, of
\* os.ReadFile (other than a missing file) and of clientcmd.Load on the local
\* file.
KubeErrors ==
  {"download failed", "kubeconfig unparsable", "server URL unparsable",
   "home directory unknown", "local file unreadable", "local file unparsable"}

\* The errors that do not depend on the mode or on the local file.
EarlyErrors(ci) ==
  {"download failed", "kubeconfig unparsable", "home directory unknown",
   "local file unreadable"} \cup (IF ci THEN {} ELSE {"server URL unparsable"})

\* The error of clientcmd.WriteToFile.
WriteError == "write failed"

\* A file that holds the first bytes of the YAML text of a document, cut
\* somewhere after the first byte and before the last, where the cut leaves a
\* text clientcmd.Load accepts: the document Load makes of it (fewer entries,
\* or a shortened name, address or certificate) depends on where the text was
\* cut.  A cut that leaves a text Load rejects gives Corrupt.
PartOf(data) == [partOf |-> data]

IsPart(file) == DOMAIN file = {"partOf"}

\* What a failed clientcmd.WriteToFile can leave at outputPath: what was there
\* (the file could not be opened); no byte (it was opened with O_TRUNC, the
\* write failed); a part of the text, which Load rejects or accepts; the whole
\* text (the close failed).
AfterFailedWrite(file, data) == {file, EmptyFile, Corrupt, PartOf(data), data}

\* oldConfig after the three merge loops when the file holds a part of a text:
\* whatever clientcmd.Load made of the part (over), with the entries of the
\* new document written over it.
MergedPart(file, new) ==
  [over |-> file, Clusters |-> new.Clusters, AuthInfos |-> new.AuthInfos,
   Contexts |-> new.Contexts]

\* The document KubeConfig hands to clientcmd.WriteToFile: the new one when
\* there is no file, else the old one with the entries of the new one.
ToWrite(file, new) ==
  IF file = Nil THEN new
  ELSE IF IsPart(file) THEN MergedPart(file, new)
  ELSE Merged(file, new)

\* A call that writes the downloaded document before it reads the local file.
KubeConfigWriteFirst(ci) ==
  LET new == NewConfig(remoteFile, serverURL, ci)
      Return(err, data, file) ==
        /\ runs' = Append(runs, [ci |-> ci, err |-> err, old |-> localFile,
                                 new |-> IF data = Nil THEN Nil ELSE new,
                                 data |-> data, doc |-> file])
        /\ localFile' = file
  IN /\ \/ \E err \in EarlyErrors(ci) : Return(err, Nil, new)
        \/ localFile = Corrupt /\ Return("local file unparsable", Nil, new)
        \/ /\ localFile # Corrupt
           /\ \/ Return(NoError, ToWrite(localFile, new), ToWrite(localFile, new))
              \/ /\ disk = "full"
                 /\ \E file \in AfterFailedWrite(localFile, ToWrite(localFile, new)) :
                      Return(WriteError, ToWrite(localFile, new), file)
     /\ UNCHANGED remoteFile

\* One call of Engine.KubeConfig with the CI signal set (ci) or unset: it
\* returns an error before it writes and leaves the file alone, or it hands
\* the new document (no file yet) or the merged one to clientcmd.WriteToFile,
\* which writes it or fails.
KubeConfigCall(ci) ==
  LET new == NewConfig(remoteFile, serverURL, ci)
      Return(err, data, file) ==
        /\ runs' = Append(runs, [ci |-> ci, err |-> err, old |-> localFile,
                                 new |-> IF data = Nil THEN Nil ELSE new,
                                 data |-> data, doc |-> file])
        /\ localFile' = file
  IN /\ \/ \E err \in EarlyErrors(ci) : Return(err, Nil, localFile)
        \/ localFile = Corrupt /\ Return("local file unparsable", Nil, localFile)
        \/ /\ localFile # Corrupt
           /\ \/ Return(NoError, ToWrite(localFile, new), ToWrite(localFile, new))
              \/ /\ disk = "full"
                 /\ \E file \in AfterFailedWrite(localFile, ToWrite(localFile, new)) :
                      Return(WriteError, ToWrite(localFile, new), file)
     /\ UNCHANGED remoteFile

\* An engine with an accepted spec, the files it will meet.
KubeSetup(c, remote, local) ==
  /\ op = "none"
  /\ SetSpec(c)
  /\ op' = "engine"
  /\ remoteFile' = remote
  /\ localFile' = local
  /\ UNCHANGED <<opPc, config, ni, proxies, sshProxy, client, via, log, opErr, runs,
                 uploaded, served, disk>>

\* Engine.KubeConfig is called, up to MaxRuns times.
KubeRun ==
  /\ op = "engine"
  /\ Len(runs) < MaxRuns
  /\ \E ci \in BOOLEAN : KubeConfigCall(ci)
  /\ UNCHANGED <<installVars, opsVars, uploaded, served, disk>>

KubeNext ==
  \/ \E c \in KubeConfigs, remote \in RemoteFiles, local \in LocalFiles :
       KubeSetup(c, remote, local)
  \/ KubeRun

KubeSpec == Init /\ [][KubeNext]_vars

\* The same calls while writes to outputPath can fail.
WriteInit ==
  /\ InitEngine
  /\ served = OkResponses
  /\ disk = "full"

WriteSpec == WriteInit /\ [][KubeNext]_vars

(***************************************************************************)
(* KubeConfig of pkg/ops: Engine.KubeConfig between Connect and            *)
(* Disconnect.                                                             *)
(***************************************************************************)
OpKubeConfig ==
  /\ op = "kubeconfig"
  /\ opPc = "run"
  /\ Logged(<<"run", Servers[1], "sudo cat /etc/rancher/k3s/k3s.yaml">>)
  /\ \E ci \in BOOLEAN : KubeConfigCall(ci)
  /\ IF runs'[Len(runs')].err = NoError
       THEN opPc' = "disconnect" /\ UNCHANGED opErr
       ELSE OpReturn(runs'[Len(runs')].err)
  /\ ni' = 1
  /\ UNCHANGED <<op, config, proxies, sshProxy, client, via, uploaded, served, disk>>
  /\ UNCHANGED installVars

\* One run of one operation of pkg/ops on a fresh engine.
OpsNext ==
  \/ \E o \in Operations, c \in OpsConfigs : OpBegin(o, c)
  \/ OpSetSpec
  \/ ConnectProxy
  \/ ConnectNode
  \/ ConnectDone
  \/ UpInstall
  \/ UpInstalled
  \/ UninstallNode
  \/ UninstallDone
  \/ OpKubeConfig
  \/ DisconnectCleanup
  \/ DisconnectNode
  \/ DisconnectDone
  \/ ControlPlaneNext /\ UNCHANGED <<opsVars, restVars>>
  \/ ControlPlaneConfigureFailed /\ UNCHANGED <<opsVars, restVars>>
  \/ ControlPlaneInstall /\ UNCHANGED <<opsVars, restVars>>
  \/ FetchClusterToken /\ UNCHANGED <<opsVars, restVars>>
  \/ InstallWorkersBegin /\ UNCHANGED <<opsVars, restVars>>
  \/ WorkerSpawn /\ UNCHANGED <<opsVars, restVars>>
  \/ WorkersSpawned /\ UNCHANGED <<opsVars, restVars>>
  \/ WorkersWait /\ UNCHANGED <<opsVars, restVars>>
  \/ (\E n \in NodeIds : ConfigureNode(n)) /\ UNCHANGED <<opsVars, kubeVars, served, disk>>
  \/ (\E n \in NodeIds : WorkerConfigureFailed(n)) /\ UNCHANGED <<opsVars, restVars>>
  \/ (\E n \in NodeIds : WorkerInstall(n)) /\ UNCHANGED <<opsVars, restVars>>

OpsSpec == Init /\ [][OpsNext]_vars

\* The configuration breaks a rule of validation: version, node list or
\* number of control-plane nodes.
InvalidConfig(c) ==
  \/ c.Version \notin {"stable", "latest", "testing"}
  \/ Len(c.Nodes) = 0
  \/ Cardinality({n \in DOMAIN c.Nodes : c.Nodes[n].Role = RoleServer}) % 2 = 0

\* C15: an operation (Up, Down or KubeConfig) whose configuration fails
\* validation returns an error without any attempt of a proxy session, a
\* node session, a remote command or an installer download.
C15_RejectedBeforeNetwork ==
  (op \in Operations /\ InvalidConfig(config)) =>
    /\ opPc \in {"setspec", "returned"}
    /\ opPc = "returned" => opErr # NoError
    /\ log = <<>>
    /\ proxies = 0
    /\ netCalls = 0
    /\ \A n \in NodeIds : client[n] = "nil"

\* C15 witness: KubeConfig has returned the validation error of a
\* configuration with two control-plane nodes and a proxy host.
C15_Witness ==
  /\ op = "kubeconfig"
  /\ opPc = "returned"
  /\ config.SSHProxy # ""
  /\ Cardinality({n \in DOMAIN config.Nodes : config.Nodes[n].Role = RoleServer}) = 2
  /\ opErr = "number of control-plane nodes must be odd"

(***************************************************************************)
(* Properties of Engine.KubeConfig.                                        *)
(***************************************************************************)
\* Every entry of map new is in map doc, and every entry of map old under a
\* name that new does not have is in doc as it was.
Kept(old, new, doc) ==
  /\ \A x \in DOMAIN new : x \in DOMAIN doc /\ doc[x] = new[x]
  /\ \A x \in (DOMAIN old) \ (DOMAIN new) : x \in DOMAIN doc /\ doc[x] = old[x]

\* C18: when a file exists at the destination, the document KubeConfig writes
\* holds every cluster, auth and context entry of this run (in place of an
\* old entry of the same name) and every old entry under another name,
\* unchanged.
C18_MergeOverwritesAndKeeps ==
  \A r \in DOMAIN runs :
    (runs[r].err = NoError /\ runs[r].old # Nil) =>
      /\ Kept(runs[r].old.Clusters, runs[r].new.Clusters, runs[r].doc.Clusters)
      /\ Kept(runs[r].old.AuthInfos, runs[r].new.AuthInfos, runs[r].doc.AuthInfos)
      /\ Kept(runs[r].old.Contexts, runs[r].new.Contexts, runs[r].doc.Contexts)

\* C18 witness: a run met a file holding an entry under a name of this run,
\* with other content, and an entry under another name.
C18_Witness ==
  \E r \in DOMAIN runs :
    /\ runs[r].err = NoError
    /\ runs[r].old # Nil
    /\ \E x \in DOMAIN runs[r].new.Clusters :
         /\ x \in DOMAIN runs[r].old.Clusters
         /\ runs[r].old.Clusters[x] # runs[r].new.Clusters[x]
    /\ \E x \in DOMAIN runs[r].old.Contexts : x \notin DOMAIN runs[r].new.Contexts

\* C19: of two successful runs in a row in the same mode (same remote file,
\* same advertised URL), the second leaves the local document as the first
\* left it, whether or not there was a file before the first.
C19_SecondRunChangesNothing ==
  \A r \in DOMAIN runs :
    ( /\ r > 1
      /\ runs[r].err = NoError
      /\ runs[r - 1].err = NoError
      /\ runs[r].ci = runs[r - 1].ci ) =>
        runs[r].doc = runs[r - 1].doc

\* C19 witness: two successful interactive runs in a row, the first of which
\* found no file.
C19_Witness ==
  /\ Len(runs) >= 2
  /\ runs[1].old = Nil
  /\ runs[1].err = NoError /\ runs[2].err = NoError
  /\ ~runs[1].ci /\ ~runs[2].ci

\* C20: in machine mode the entries KubeConfig writes are named "default";
\* they take the place of the entries named "default" of an existing
\* document, whose other entries stay as they were.
C20_MachineModeKeepsDefault ==
  \A r \in DOMAIN runs :
    (runs[r].err = NoError /\ runs[r].ci) =>
      LET old == IF runs[r].old = Nil THEN LocalDocument({}) ELSE runs[r].old
          doc == runs[r].doc
      IN /\ DOMAIN doc.Clusters = (DOMAIN old.Clusters) \cup {"default"}
         /\ DOMAIN doc.AuthInfos = (DOMAIN old.AuthInfos) \cup {"default"}
         /\ DOMAIN doc.Contexts = (DOMAIN old.Contexts) \cup {"default"}
         /\ doc.Clusters["default"] =
              [Server |-> serverURL, CA |-> remoteFile.Clusters["default"].CA]
         /\ doc.AuthInfos["default"] = remoteFile.AuthInfos["default"]
         /\ doc.Contexts["default"] = [Cluster |-> "default", AuthInfo |-> "default"]
         /\ \A x \in (DOMAIN old.Clusters) \ {"default"} : doc.Clusters[x] = old.Clusters[x]
         /\ \A x \in (DOMAIN old.AuthInfos) \ {"default"} : doc.AuthInfos[x] = old.AuthInfos[x]
         /\ \A x \in (DOMAIN old.Contexts) \ {"default"} : doc.Contexts[x] = old.Contexts[x]

\* C20 witness: a machine-mode run met a file with entries named "default"
\* and entries under another name.
C20_Witness ==
  \E r \in DOMAIN runs :
    /\ runs[r].err = NoError
    /\ runs[r].ci
    /\ runs[r].old # Nil
    /\ {"default", "ctxA"} \subseteq DOMAIN runs[r].old.Contexts
    /\ runs[r].old.Clusters["default"] # runs[r].doc.Clusters["default"]

\* The names an interactive run derives from the advertised URL u.
DerivedCluster(u) == IF u[3] = DefaultPort THEN u[2] ELSE u[2] \o ":" \o ToString(u[3])
DerivedContext(u) == "admin@" \o DerivedCluster(u)

\* C21: an interactive run names its cluster entry with the hostname of the
\* advertised URL, with ":<port>" appended if and only if the port is not
\* 6443, names its context and auth entries "admin@<cluster-name>", and the
\* context it writes refers to exactly those cluster and auth names.
C21_InteractiveNames ==
  \A r \in DOMAIN runs :
    (runs[r].err = NoError /\ ~runs[r].ci) =>
      /\ DOMAIN runs[r].new.Clusters = {DerivedCluster(serverURL)}
      /\ DOMAIN runs[r].new.AuthInfos = {DerivedContext(serverURL)}
      /\ DOMAIN runs[r].new.Contexts = {DerivedContext(serverURL)}
      /\ runs[r].new.Contexts[DerivedContext(serverURL)] =
           [Cluster |-> DerivedCluster(serverURL), AuthInfo |-> DerivedContext(serverURL)]

\* C22: under one configuration, every cluster entry a KubeConfig run writes
\* has the advertised URL SetSpec computes for it as its server endpoint,
\* not the address of the remote file, and that URL is the join URL of every
\* install invocation that carries one.
C22_EndpointIsAdvertisedURL ==
  (op \in Operations /\ spec # Nil) =>
    /\ serverURL = AdvertisedURL(config)
    /\ \A r \in DOMAIN runs :
         runs[r].err = NoError =>
           \A x \in DOMAIN runs[r].new.Clusters :
             /\ runs[r].new.Clusters[x].Server = AdvertisedURL(config)
             /\ runs[r].doc.Clusters[x].Server = AdvertisedURL(config)
    /\ \A n \in DOMAIN config.Nodes :
         (calls[n].called /\ "K3S_URL" \in DOMAIN calls[n].env) =>
           calls[n].env["K3S_URL"] = AdvertisedURL(config)

\* C22 witness: a run wrote a cluster entry whose endpoint is the first
\* subject-alternative-name with the advertise port, unlike the remote file's.
C22_Witness ==
  /\ op = "kubeconfig"
  /\ \E r \in DOMAIN runs :
       /\ runs[r].err = NoError
       /\ \E x \in DOMAIN runs[r].doc.Clusters :
            /\ runs[r].doc.Clusters[x].Server = <<"https", "api", 8443>>
            /\ remoteFile.Clusters["default"].Server # <<"https", "api", 8443>>

\* The first control-plane node of document c in node-list order.
FirstControlPlane(c) ==
  CHOOSE k \in DOMAIN c.Nodes :
    /\ c.Nodes[k].Role = RoleServer
    /\ \A m \in 1..(k - 1) : c.Nodes[m].Role # RoleServer

\* C25: ConfigureNode and Install leave the stored specification alone: the
\* cluster-wide fragments and the settings fragments of every node are what
\* they were right after SetSpec (the loaded document).
C25_SpecNeverModified ==
  (op = "up" /\ spec # Nil) =>
    /\ spec.Cluster = config.Cluster
    /\ \A n \in DOMAIN config.Nodes :
         /\ spec.Nodes[n].Server = config.Nodes[n].Server
         /\ spec.Nodes[n].Agent = config.Nodes[n].Agent

\* The positions of the log that hold the given entry.
Occurrences(entry) == {x \in DOMAIN log : log[x] = entry}

\* ConfigureNode has been entered on this engine.
ConfigureEntered == \E n \in NodeIds : nodePc[n] \notin {"idle", "enter"}

\* C29: Disconnect sends the removal of the temporary directory to a node if
\* and only if ConfigureNode has been entered on this engine: never in a run
\* of Down or KubeConfig, and after a fully successful Up every node of the
\* spec has had one removal and one close.
C29_CleanupIffConfigured ==
  op \in Operations =>
    /\ op \in {"down", "kubeconfig"} => \A n \in NodeIds : ~InLog(<<"rm", n>>)
    /\ \A n \in NodeIds :
         /\ InLog(<<"rm", n>>) => ConfigureEntered
         /\ (InLog(<<"close", n>>) /\ ConfigureEntered) => InLog(<<"rm", n>>)
    /\ (op = "up" /\ opPc = "returned" /\ opErr = NoError) =>
         \A n \in DOMAIN spec.Nodes :
           /\ Cardinality(Occurrences(<<"rm", n>>)) = 1
           /\ Cardinality(Occurrences(<<"close", n>>)) = 1
           /\ client[n] = "closed"

\* C29 witness: Up has returned nil on a spec of three nodes, after three
\* removals and three closes.
C29_Witness ==
  /\ op = "up"
  /\ opPc = "returned"
  /\ opErr = NoError
  /\ Len(spec.Nodes) = 3
  /\ Cardinality({x \in DOMAIN log : log[x][1] = "rm"}) = 3
  /\ Cardinality({x \in DOMAIN log : log[x][1] = "close"}) = 3

\* The positions of the log that hold the run of a script or command.
ScriptRuns == {x \in DOMAIN log : log[x][1] = "run"}

\* C31: Uninstall runs one script per node in node-list order, the agent
\* uninstall script on a worker and the server uninstall script on any other
\* node; when a script fails, that error is returned and no script has run
\* on a later node; when Uninstall returns nil, every node has had its script.
C31_UninstallInOrder ==
  (op = "down" /\ spec # Nil) =>
    /\ \A x \in ScriptRuns :
         /\ log[x][2] = Cardinality({y \in ScriptRuns : y <= x})
         /\ log[x][3] = IF config.Nodes[log[x][2]].Role = "agent"
                          THEN "k3s-agent-uninstall.sh"
                          ELSE "k3s-uninstall.sh"
    /\ (opPc = "returned" /\ opErr = "uninstall failed") =>
         Cardinality(ScriptRuns) = ni
    /\ opPc \in {"disconnect", "close"} =>
         Cardinality(ScriptRuns) = Len(config.Nodes)
    /\ (opPc = "returned" /\ opErr \in {NoError, "cleanup failed", "close failed"}) =>
         Cardinality(ScriptRuns) = Len(config.Nodes)

\* C31 witness: the script failed on the second of at least three nodes, the
\* first of which is a worker, and Down returned that error.
C31_Witness ==
  /\ op = "down"
  /\ opPc = "returned"
  /\ opErr = "uninstall failed"
  /\ ni = 2
  /\ Len(spec.Nodes) >= 3
  /\ spec.Nodes[1].Role = RoleAgent
  /\ Cardinality(ScriptRuns) = 2

(***************************************************************************)
(* Engine.SetSpec on its own, called up to MaxSetSpecCalls times on one    *)
(* engine; the log keeps, per call, the argument, the error returned and   *)
(* the engine's spec and advertised URL before and after.                  *)
(***************************************************************************)
MaxSetSpecCalls == 2

\* eng.SetSpec(c) is called on an idle engine and returns.
SetSpecCall(c) ==
  /\ op \in {"none", "setspec"}
  /\ Len(log) < MaxSetSpecCalls
  /\ SetSpec(c)
  /\ op' = "setspec"
  /\ Logged([c |-> c, err |-> Verify(c),
             specBefore |-> spec, urlBefore |-> serverURL,
             specAfter |-> spec', urlAfter |-> serverURL'])
  /\ UNCHANGED <<opPc, config, ni, proxies, sshProxy, client, via, opErr>>
  /\ UNCHANGED restVars

SetSpecNext == \E c \in Configs \cup AdvertisedConfigs \cup {Nil} : SetSpecCall(c)

SetSpecSpec == Init /\ [][SetSpecNext]_vars

\* C24: a call of SetSpec with a configuration that fails validation returns
\* an error and leaves the engine's spec and advertised URL as they were
\* before the call, also when a valid spec had been set before.
C24_RejectedSpecChangesNothing ==
  \A x \in DOMAIN log :
    (log[x].c = Nil \/ InvalidConfig(log[x].c)) =>
      /\ log[x].err # NoError
      /\ log[x].specAfter = log[x].specBefore
      /\ log[x].urlAfter = log[x].urlBefore

\* C24 witness: a configuration with two control-plane nodes was rejected on
\* an engine that held a valid spec with an advertised URL.
C24_Witness ==
  /\ Len(log) = 2
  /\ log[2].c # Nil
  /\ Cardinality({n \in DOMAIN log[2].c.Nodes : log[2].c.Nodes[n].Role = RoleServer}) = 2
  /\ log[2].specBefore # Nil
  /\ log[2].urlBefore = <<"https", "api", 8443>>
  /\ log[2].urlAfter = <<"https", "api", 8443>>

\* C23: after a successful SetSpec the advertised URL is https://host:port,
\* host being the first cluster-wide TLS subject-alternative-name if there is
\* one and else the connection host of the first control-plane node in
\* node-list order, port being the cluster-wide advertise port if not zero,
\* else the cluster-wide HTTPS listen port if not zero, else 6443.
C23_AdvertisedURL ==
  \A x \in DOMAIN log :
    log[x].err = NoError =>
      LET server == log[x].c.Cluster.Server
          host == IF Len(server.TLSSAN) > 0 THEN server.TLSSAN[1]
                  ELSE log[x].c.Nodes[FirstControlPlane(log[x].c)].Host
          port == IF server.AdvertisePort # 0 THEN server.AdvertisePort
                  ELSE IF server.HTTPSListenPort # 0 THEN server.HTTPSListenPort
                  ELSE 6443
      IN /\ log[x].urlAfter = <<"https", host, port>>
         /\ x = Len(log) => serverURL = <<"https", host, port>>

\* C23 witness: SetSpec accepted a document with a subject-alternative-name,
\* an advertise port and a listen port, and one whose first node is a worker
\* and that has only a listen port.
C23_Witness ==
  /\ Len(log) = 2
  /\ log[1].err = NoError
  /\ log[1].c.Cluster.Server.HTTPSListenPort = 7443
  /\ log[1].urlAfter = <<"https", "api", 8443>>
  /\ log[2].err = NoError
  /\ serverURL = <<"https", "n2", 7443>>

(***************************************************************************)
(* Engine.ConfigureNode on its own, called for the nodes of a spec whose   *)
(* cluster-wide and node-specific settings are set.                        *)
(***************************************************************************)
\* One worker (n1) and one control-plane node (n2); cl, cn, cp are the
\* cluster-wide node labels, node name and HTTPS port of both fragments, nl,
\* nn, np the node-specific ones of both nodes.
MergeConfig(cl, cn, cp, nl, nn, np) ==
  [MkConfig("stable", Alternate(1, 1)) EXCEPT
     !.Cluster.Server.NodeLabel = cl, !.Cluster.Agent.NodeLabel = cl,
     !.Cluster.Server.NodeName = cn, !.Cluster.Agent.NodeName = cn,
     !.Cluster.Server.HTTPSListenPort = cp,
     !.Nodes[1].Agent.NodeLabel = nl, !.Nodes[2].Server.NodeLabel = nl,
     !.Nodes[1].Agent.NodeName = nn, !.Nodes[2].Server.NodeName = nn,
     !.Nodes[2].Server.HTTPSListenPort = np]

MergeConfigs ==
  {MergeConfig(cl, cn, cp, nl, nn, np) :
     cl \in {<<>>, <<"a", "b">>}, cn \in {"", "c"}, cp \in {0, 8443},
     nl \in {<<>>, <<"c">>, <<"a">>}, nn \in {"", "n"}, np \in {0, 9443}}

\* One worker (n1) and one control-plane node (n2), without and with a
\* cluster-wide and a node-specific advertise address.
AdvertiseAddressConfigs ==
  {[MkConfig("stable", Alternate(1, 1)) EXCEPT
      !.Cluster.Server.AdvertiseAddress = ca, !.Nodes[2].Server.AdvertiseAddress = na] :
     ca \in {"", "10.0.0.1"}, na \in {"", "10.0.0.2"}}

\* A control-plane node (n1) and a node of another role (n2) that has agent
\* settings of its own.
OtherRoleMergeConfigs ==
  {[c EXCEPT !.Nodes[2].Agent.NodeName = "x"] : c \in OtherRoleConfigs}

\* An engine with an accepted spec; config keeps the document as it was given.
MergeSetup(c) ==
  /\ op = "none"
  /\ SetSpec(c)
  /\ op' = "configure"
  /\ config' = c
  /\ UNCHANGED <<opPc, ni, proxies, sshProxy, client, via, log, opErr>>
  /\ UNCHANGED restVars

\* e.ConfigureNode(node) is called, one call at a time.
ConfigureCall(n) ==
  /\ op = "configure"
  /\ n \in DOMAIN spec.Nodes
  /\ nodePc[n] = "idle"
  /\ \A m \in DOMAIN spec.Nodes : nodePc[m] \in {"idle", "configured", "failed"}
  /\ Goto(n, "enter")
  /\ UNCHANGED engineVars
  /\ UNCHANGED <<mainPc, i, j, env, wg, respBody, fetch, calls, tokenRead,
                 netCalls, installResult>>
  /\ UNCHANGED <<opsVars, restVars>>

MergeNext ==
  \/ \E c \in MergeConfigs \cup AdvertiseAddressConfigs \cup OtherRoleMergeConfigs :
       MergeSetup(c)
  \/ \E n \in NodeIds : ConfigureCall(n)
  \/ (\E n \in NodeIds : ConfigureNode(n)) /\ UNCHANGED <<opsVars, kubeVars, served, disk>>

MergeSpec == Init /\ [][MergeNext]_vars

\* The settings fragment of its role that node n has in document c, and the
\* cluster-wide fragment of that role.
NodeFragment(c, n) ==
  IF c.Nodes[n].Role = RoleServer THEN c.Nodes[n].Server ELSE c.Nodes[n].Agent

ClusterFragment(c, n) ==
  IF c.Nodes[n].Role = RoleServer THEN c.Cluster.Server ELSE c.Cluster.Agent

\* Field f of the config.yaml uploaded to node n; a field left out is zero.
Written(n, f) == IF f \in DOMAIN uploaded[n] THEN uploaded[n][f] ELSE Zero(f)

\* C16: in the settings uploaded to a control-plane or worker node, every
\* sequence field is the cluster-wide sequence followed by the node-specific
\* one.
C16_SequencesClusterFirst ==
  \A n \in (IF config = Nil THEN {} ELSE DOMAIN config.Nodes) :
    (uploaded[n] # Nil /\ config.Nodes[n].Role \in {RoleServer, RoleAgent}) =>
      \A f \in SliceFields \cap DOMAIN NodeFragment(config, n) :
        Written(n, f) = ClusterFragment(config, n)[f] \o NodeFragment(config, n)[f]

\* C17: in the settings uploaded to a control-plane or worker node, every
\* scalar field (the advertise address, which has a default of its own,
\* aside) is the node-specific value if that is not zero or empty, else the
\* cluster-wide value.
C17_NodeScalarWins ==
  \A n \in (IF config = Nil THEN {} ELSE DOMAIN config.Nodes) :
    (uploaded[n] # Nil /\ config.Nodes[n].Role \in {RoleServer, RoleAgent}) =>
      \A f \in (DOMAIN NodeFragment(config, n)) \ (SliceFields \cup {"AdvertiseAddress"}) :
        Written(n, f) = IF NodeFragment(config, n)[f] # Zero(f)
                          THEN NodeFragment(config, n)[f]
                          ELSE ClusterFragment(config, n)[f]

\* C32: the advertise address written to a control-plane node is the
\* node-specific one if that is set, else the cluster-wide one if that is
\* set, else the connection host of the node.
C32_AdvertiseAddress ==
  \A n \in (IF config = Nil THEN {} ELSE DOMAIN config.Nodes) :
    (uploaded[n] # Nil /\ config.Nodes[n].Role = RoleServer) =>
      Written(n, "AdvertiseAddress") =
        IF config.Nodes[n].Server.AdvertiseAddress # ""
          THEN config.Nodes[n].Server.AdvertiseAddress
        ELSE IF config.Cluster.Server.AdvertiseAddress # ""
          THEN config.Cluster.Server.AdvertiseAddress
        ELSE config.Nodes[n].Host

\* C33: after a successful interactive run the current context of the local
\* document is the context derived in the run, whether the file was created
\* or merged.
C33_CurrentContextIsDerived ==
  \A r \in DOMAIN runs :
    (runs[r].err = NoError /\ ~runs[r].ci) =>
      runs[r].doc.CurrentContext = DerivedContext(serverURL)

\* C34: when the runs started without a local file, the document never holds
\* the entries of the cluster both under the name "default" and under the
\* derived name.
C34_OneNamePerCluster ==
  (runs # <<>> /\ runs[1].old = Nil /\ DerivedCluster(serverURL) # "default") =>
    \A r \in DOMAIN runs :
      runs[r].err = NoError =>
        /\ ~({"default", DerivedCluster(serverURL)} \subseteq DOMAIN runs[r].doc.Clusters)
        /\ ~({"default", DerivedContext(serverURL)} \subseteq DOMAIN runs[r].doc.Contexts)
        /\ ~({"default", DerivedContext(serverURL)} \subseteq DOMAIN runs[r].doc.AuthInfos)

C36_ReferentiallyClosed ==
  \A r \in DOMAIN runs :
    runs[r].err = NoError =>
      \A x \in DOMAIN runs[r].new.Contexts :
        /\ x \in DOMAIN runs[r].doc.Contexts
        /\ runs[r].doc.Contexts[x].Cluster \in DOMAIN runs[r].doc.Clusters
        /\ runs[r].doc.Contexts[x].AuthInfo \in DOMAIN runs[r].doc.AuthInfos

\* C37: when Up or Down has returned, with or without an error, no session to a
\* node is open and, if temporary state was created, its removal has been
\* attempted on every node a session was opened to.
C37_ReturnLeavesNothingOpen ==
  (op \in {"up", "down"} /\ opPc = "returned") =>
    \A n \in DOMAIN client :
      /\ client[n] # "open"
      /\ (cleanupPending /\ client[n] # "nil") => InLog(<<"rm", n>>)

\* C38: after Up, Down or KubeConfig has returned without an error, neither the
\* proxy session nor a node session is open.
C38_SuccessLeavesNoSession ==
  (op \in Operations /\ opPc = "returned" /\ opErr = NoError) =>
    /\ ~ProxyOpen
    /\ \A n \in DOMAIN client : client[n] # "open"

(***************************************************************************)
(* SetSpec and Install under fair scheduling: the main goroutine and every *)
(* worker goroutine that can take a step eventually takes one, and every   *)
(* remote operation and download that was started eventually returns.      *)
(***************************************************************************)
FairSpec == Init /\ [][Next]_vars /\ WF_vars(Next)

\* C39: once installWorkers waits for its worker tasks, Install eventually
\* returns, and a worker task that waits for the engine mutex eventually gets
\* it.
C39_WorkerPhaseCompletes ==
  /\ (mainPc = "wait") ~> (mainPc = "done")
  /\ \A n \in NodeIds : (nodePc[n] = "lock") ~> (nodePc[n] # "lock")

\* C40: every node of an accepted spec has the role control-plane or worker,
\* and when Install has returned nil under Up with no task failed, every node
\* Connect opened a session to has been configured and has had its install
\* script invoked.
C40_EveryNodeInstalled ==
  (op = "up" /\ mainPc = "done" /\ installResult = "nil"
     /\ \A n \in NodeIds : nodePc[n] # "task_failed") =>
    \A n \in DOMAIN spec.Nodes :
      /\ spec.Nodes[n].Role \in {RoleServer, RoleAgent}
      /\ client[n] # "nil" => (nodePc[n] \in {"done", "task_done"} /\ calls[n].called)

====
